---- MODULE Spec2Model ----
(***************************************************************************)
(* GitID: the identity Manager (internal/identity/manager.go) and the      *)
(* ConfigManager that edits the managed section of ~/.gitconfig and the    *)
(* per-identity files ~/.gitconfig-gitid-<name> (internal/config).         *)
(*                                                                         *)
(* A Go string is a sequence of tokens: every literal the code searches    *)
(* for, splits on or formats with is one token, every other token is one   *)
(* character of user text.  A file is its sequence of lines.               *)
(***************************************************************************)
EXTENDS Integers, Sequences, FiniteSets, TLC

VARIABLES cfg, cred, identities, lastOp, prev, nOps

vars == <<cfg, cred, identities, lastOp, prev, nOps>>

\* ---------------------------------------------------------------- bounds
MaxOps == 2
MaxPaths == 2
MaxOutside == 2
MaxInitEntries == 2
MaxScanLen == 3

\* ------------------------------------------------------------- constants
GitIDSectionStart == <<"# GitID Managed Section - Do not edit manually">>
GitIDSectionEnd == <<"# End GitID Managed Section">>

IncludeIfTok == "[includeIf \""
GitdirTok == "gitdir:"
CloseTok == "\"]"
PathEqTok == "path = "
IdentityFileTok == ".gitconfig-gitid-"
Sep == "/"

\* os.UserHomeDir()
HomeDir == <<Sep, "h">>

\* a file that does not exist, and a file holding the given lines
NoFile == [exists |-> FALSE, lines |-> <<>>]

File(lines) == [exists |-> TRUE, lines |-> lines]

\* the nil error
NoErr == <<>>

\* ------------------------------------------------------ package strings
Whitespace == {" ", "    ", "\t"}

Drop(s, n) == SubSeq(s, n + 1, Len(s))

Take(s, n) == SubSeq(s, 1, n)

HasPrefix(s, p) == Len(s) >= Len(p) /\ Take(s, Len(p)) = p

HasSuffix(s, p) == Len(s) >= Len(p) /\ Drop(s, Len(s) - Len(p)) = p

\* the 0-based positions at which sub occurs in s
Occurrences(s, sub) ==
    {i \in 0..(Len(s) - Len(sub)) : SubSeq(s, i + 1, i + Len(sub)) = sub}

Index(s, sub) ==
    IF Occurrences(s, sub) = {} THEN -1
    ELSE CHOOSE i \in Occurrences(s, sub) : \A j \in Occurrences(s, sub) : i <= j

LastIndex(s, sub) ==
    IF Occurrences(s, sub) = {} THEN -1
    ELSE CHOOSE i \in Occurrences(s, sub) : \A j \in Occurrences(s, sub) : i >= j

Contains(s, sub) == Index(s, sub) >= 0

RECURSIVE TrimLeft(_)
TrimLeft(s) ==
    IF s # <<>> /\ Head(s) \in Whitespace THEN TrimLeft(Tail(s)) ELSE s

RECURSIVE TrimRight(_)
TrimRight(s) ==
    IF s # <<>> /\ s[Len(s)] \in Whitespace THEN TrimRight(Take(s, Len(s) - 1)) ELSE s

TrimSpace(s) == TrimRight(TrimLeft(s))

\* strings.Split(s, sep) for a non-empty sep: the parts between the
\* non-overlapping occurrences of sep, left to right
RECURSIVE Split(_, _)
Split(s, sep) ==
    LET i == Index(s, sep)
    IN IF i < 0 THEN <<s>>
       ELSE <<Take(s, i)>> \o Split(Drop(s, i + Len(sep)), sep)

\* ----------------------------------------------------- package filepath
\* filepath.Clean on paths without "." and ".." elements: runs of
\* separators collapse to one and a trailing separator is dropped
RECURSIVE Squeeze(_)
Squeeze(p) ==
    IF Len(p) < 2 THEN p
    ELSE IF p[1] = Sep /\ p[2] = Sep THEN Squeeze(Tail(p))
    ELSE <<p[1]>> \o Squeeze(Tail(p))

Clean(p) ==
    LET q == Squeeze(p)
    IN IF Len(q) > 1 /\ q[Len(q)] = Sep THEN Take(q, Len(q) - 1) ELSE q

FilepathJoin(a, b) ==
    IF a = <<>> THEN Clean(b)
    ELSE IF b = <<>> THEN Clean(a)
    ELSE Clean(a \o <<Sep>> \o b)

\* ------------------------------------------------------------ Go values
\* a Go map: a function whose domain is the set of keys present
EmptyMap == [x \in {} |-> x]

MapPut(m, k, v) == [x \in (DOMAIN m) \cup {k} |-> IF x = k THEN v ELSE m[x]]

MapDelete(m, k) == [x \in (DOMAIN m) \ {k} |-> m[x]]

\* the 0-based element i of a slice
At(s, i) == s[i + 1]

\* append(slice, elems...) where the slice is the first Len(st.nc) elements
\* of the array behind content while st.shared holds (as content[:k] is):
\* its capacity is then Len(st.content), an append that fits is written
\* into that array, and one that does not fit moves to a fresh array.
GoAppend(st, elems) ==
    LET n == Len(st.nc)
        fits == st.shared /\ n + Len(elems) <= Len(st.content)
    IN [content |-> IF fits
                    THEN [i \in 1..Len(st.content) |->
                            IF i > n /\ i <= n + Len(elems)
                            THEN elems[i - n] ELSE st.content[i]]
                    ELSE st.content,
        nc |-> st.nc \o elems,
        shared |-> fits]

\* identity.Identity
Identity(name, gitName, email, paths) ==
    [Name |-> name, GitName |-> gitName, Email |-> email, Paths |-> paths]

\* ------------------------------------------------- gopkg.in/ini.v1 files
UserSection == <<"[user]">>

IniLine(key, value) == <<key, " = ">> \o value

\* the value of key in section [user], "" when the key is not there
IniKey(lines, key) ==
    LET hits == {i \in 1..Len(lines) :
                    /\ HasPrefix(lines[i], <<key, " = ">>)
                    /\ \E j \in 1..(i - 1) : lines[j] = UserSection}
    IN IF hits = {} THEN <<>>
       ELSE Drop(lines[CHOOSE i \in hits : \A j \in hits : i <= j], 2)

\* ini.Load accepts section headers and key = value lines
IniParses(lines) ==
    \A i \in 1..Len(lines) :
        lines[i] = UserSection \/ (Len(lines[i]) >= 2 /\ lines[i][2] = " = ")

\* ------------------------------------------------------- ConfigManager
IdentityFileName(name) == <<IdentityFileTok>> \o name

IdentityFilePath(name) == FilepathJoin(HomeDir, IdentityFileName(name))

CredOf(cr, name) == IF name \in DOMAIN cr THEN cr[name] ELSE NoFile

\* readGitConfig: the lines of ~/.gitconfig, strings.Split(data, "\n"); an
\* absent file reads as no lines; fails: os.ReadFile fails on the file
readGitConfig(file, fails) ==
    IF ~file.exists THEN [err |-> NoErr, content |-> <<>>]
    ELSE IF fails THEN [err |-> <<"read ~/.gitconfig">>, content |-> <<>>]
    ELSE [err |-> NoErr, content |-> file.lines]

\* strings.Split(strings.Join(lines, "\n"), "\n"): the lines of the file
\* whose bytes are the given lines joined; no bytes read as one empty line
SplitLines(lines) == IF lines = <<>> THEN << <<>> >> ELSE lines

\* writeGitConfig: strings.Join(lines, "\n") written to the file
writeGitConfig(file, lines, fails) ==
    IF fails THEN [err |-> <<"write ~/.gitconfig">>, file |-> file, written |-> FALSE]
    ELSE [err |-> NoErr, written |-> TRUE, file |-> File(SplitLines(lines))]

\* findGitIDSection: the scan from line i on, with startIndex s so far
RECURSIVE ScanSection(_, _, _)
ScanSection(lines, i, s) ==
    IF i >= Len(lines) THEN <<s, -1>>
    ELSE IF TrimSpace(At(lines, i)) = GitIDSectionStart
         THEN ScanSection(lines, i + 1, i)
    ELSE IF TrimSpace(At(lines, i)) = GitIDSectionEnd
         THEN <<s, i>>
    ELSE ScanSection(lines, i + 1, s)

findGitIDSection(lines) == ScanSection(lines, 0, -1)

\* loadIdentityFile: whether ini.Load succeeds on ~/.gitconfig-gitid-<name>,
\* and the record then returned
loadIdentityFile(cr, name) ==
    LET file == CredOf(cr, name)
    IN [ok |-> file.exists /\ IniParses(file.lines),
        ident |-> Identity(name, IniKey(file.lines, "name"),
                           IniKey(file.lines, "email"), <<>>)]

\* createIdentityFile: the file saved as ~/.gitconfig-gitid-<name>
createIdentityFile(identity) ==
    File(<<UserSection, IniLine("name", identity.GitName),
           IniLine("email", identity.Email)>>)

IsHeaderLine(line) == HasPrefix(line, <<IncludeIfTok, GitdirTok>>)

IsPathLine(line) == Contains(line, <<PathEqTok>>) /\ Contains(line, <<IdentityFileTok>>)

\* the path of an includeIf line lies between "gitdir:" and the last "]
HeaderStart(line) == Index(line, <<GitdirTok>>) + Len(<<GitdirTok>>)

HeaderEnd(line) == LastIndex(line, <<CloseTok>>)

\* that path with its trailing slash removed
HeaderPath(line) ==
    LET path == SubSeq(line, HeaderStart(line) + 1, HeaderEnd(line))
    IN IF HasSuffix(path, <<Sep>>) THEN Take(path, Len(path) - 1) ELSE path

\* the identity name a path line names: what follows ".gitconfig-gitid-"
PathLineName(line) == TrimSpace(Split(line, <<IdentityFileTok>>)[2])

\* mutant of FoldHeader: a header line starts the list of paths anew
FoldHeaderAnew(currentPaths, line) ==
    IF IsHeaderLine(line) /\ HeaderStart(line) < HeaderEnd(line)
    THEN <<HeaderPath(line)>>
    ELSE currentPaths

\* currentPaths after the includeIf check of the loop on one line
FoldHeader(currentPaths, line) ==
    IF IsHeaderLine(line) /\ HeaderStart(line) < HeaderEnd(line)
    THEN Append(currentPaths, HeaderPath(line))
    ELSE currentPaths

\* mutant of PendingAfterPathLine: the paths stay pending when the
\* identity file could not be loaded
PendingKeptOnError(got, currentPaths) == IF got.ok THEN <<>> ELSE currentPaths

\* currentPaths after a path line: reset to nil, whether loadIdentityFile
\* returned got with an error or not
PendingAfterPathLine(got, currentPaths) == <<>>

\* the loop of LoadExistingIdentities from line i on
RECURSIVE LoadLoop(_, _, _, _, _, _)
LoadLoop(content, cr, i, endIndex, currentPaths, ids) ==
    IF i >= endIndex THEN ids
    ELSE LET line == TrimSpace(At(content, i))
             paths1 == FoldHeader(currentPaths, line)
         IN IF IsPathLine(line)
            THEN LET name == PathLineName(line)
                     got == loadIdentityFile(cr, name)
                 IN LoadLoop(content, cr, i + 1, endIndex,
                             PendingAfterPathLine(got, paths1),
                             IF got.ok
                             THEN MapPut(ids, name, [got.ident EXCEPT !.Paths = paths1])
                             ELSE ids)
            ELSE LoadLoop(content, cr, i + 1, endIndex, paths1, ids)

\* LoadExistingIdentities: the map returned and the error returned with it;
\* readFails: os.ReadFile fails on a file that exists
LoadExistingIdentities(file, cr, readFails) ==
    LET read == readGitConfig(file, readFails)
        content == read.content
        sec == findGitIDSection(content)
    IN IF read.err # NoErr THEN [ids |-> EmptyMap, err |-> NoErr]
       ELSE IF sec[1] = -1 THEN [ids |-> EmptyMap, err |-> NoErr]
       ELSE [ids |-> LoadLoop(content, cr, sec[1] + 1, sec[2], <<>>, EmptyMap),
             err |-> NoErr]

Panic == <<"panic: slice bounds out of range">>

Wrap(msg, err) == <<msg>> \o err

\* mutant of ExpandedPath: "/" is added to every path
ExpandedPathSlashAdded(path) ==
    (IF HasPrefix(path, <<"~", Sep>>)
     THEN FilepathJoin(HomeDir, Drop(path, 2))
     ELSE path) \o <<Sep>>

\* the path written into an includeIf line: ~/ expanded, one "/" at the end
ExpandedPath(path) ==
    LET expanded == IF HasPrefix(path, <<"~", Sep>>)
                    THEN FilepathJoin(HomeDir, Drop(path, 2))
                    ELSE path
    IN IF HasSuffix(expanded, <<Sep>>) THEN expanded ELSE expanded \o <<Sep>>

HeaderLine(path) == <<IncludeIfTok, GitdirTok>> \o ExpandedPath(path) \o <<CloseTok>>

PathLine(name) == <<"    ", PathEqTok>> \o IdentityFilePath(name)

\* the newEntries of addIncludeIfEntry: two lines for each path, in order
RECURSIVE NewEntries(_, _)
NewEntries(name, paths) ==
    IF paths = <<>> THEN <<>>
    ELSE <<HeaderLine(Head(paths)), PathLine(name)>> \o NewEntries(name, Tail(paths))

\* mutant of ExistingEntries: the loop starts one line late
ExistingEntriesLate(content, startIndex, endIndex) ==
    SubSeq(content, startIndex + 3, endIndex)

\* the existingEntries of addIncludeIfEntry: content[startIndex+1 .. endIndex-1]
ExistingEntries(content, startIndex, endIndex) ==
    SubSeq(content, startIndex + 2, endIndex)

\* the newContent of addIncludeIfEntry, built by append
AddNewContent(content, name, paths) ==
    LET sec == findGitIDSection(content)
        startIndex == sec[1]
        endIndex == sec[2]
        newEntries == NewEntries(name, paths)
        existingEntries == ExistingEntries(content, startIndex, endIndex)
    IN IF startIndex = -1
       THEN LET a1 == GoAppend([content |-> content, nc |-> content, shared |-> TRUE],
                               << <<>> >>)
                a2 == GoAppend(a1, <<GitIDSectionStart>>)
                a3 == GoAppend(a2, newEntries)
                a4 == GoAppend(a3, <<GitIDSectionEnd>>)
            IN a4.nc
       ELSE LET b1 == GoAppend([content |-> content, nc |-> Take(content, startIndex),
                                shared |-> TRUE], <<GitIDSectionStart>>)
                b2 == GoAppend(b1, existingEntries)
                b3 == GoAppend(b2, newEntries)
                b4 == GoAppend(b3, <<GitIDSectionEnd>>)
                b5 == IF endIndex < Len(content)
                      THEN GoAppend(b4, Drop(b4.content, endIndex + 1))
                      ELSE b4
            IN b5.nc

\* addIncludeIfEntry: read, rebuild, write
addIncludeIfEntry(file, identity, fault) ==
    LET read == readGitConfig(file, fault = "cfgRead")
    IN IF read.err # NoErr
       THEN [err |-> read.err, file |-> file, written |-> FALSE]
       ELSE writeGitConfig(file, AddNewContent(read.content, identity.Name, identity.Paths),
                           fault = "cfgWrite")

\* the filter loop of removeIncludeIfEntry from line i on
RECURSIVE RemoveLoop(_, _, _, _, _, _)
RemoveLoop(content, identityPath, startIndex, endIndex, i, newEntries) ==
    IF i >= endIndex THEN [panic |-> FALSE, newEntries |-> newEntries]
    ELSE IF Contains(At(content, i), identityPath)
         THEN IF i > startIndex + 1
              THEN IF newEntries = <<>>
                   THEN [panic |-> TRUE, newEntries |-> <<>>]
                   ELSE RemoveLoop(content, identityPath, startIndex, endIndex, i + 1,
                                   Take(newEntries, Len(newEntries) - 1))
              ELSE RemoveLoop(content, identityPath, startIndex, endIndex, i + 1,
                              newEntries)
         ELSE RemoveLoop(content, identityPath, startIndex, endIndex, i + 1,
                         Append(newEntries, At(content, i)))

\* mutant of RemoveNewContent: a section left without entries keeps its
\* markers
RemoveNewContentEmptied(content, startIndex, endIndex, newEntries) ==
    Take(content, startIndex) \o <<GitIDSectionStart>> \o newEntries
    \o <<GitIDSectionEnd>> \o Drop(content, endIndex + 1)

\* mutant of RemoveNewContent: the lines after the section are taken from
\* the end marker on
RemoveNewContentFromEnd(content, startIndex, endIndex, newEntries) ==
    LET rest == IF endIndex < 0 THEN content ELSE Drop(content, endIndex)
    IN IF Len(newEntries) = 0
       THEN Take(content, startIndex) \o rest
       ELSE Take(content, startIndex) \o <<GitIDSectionStart>> \o newEntries
            \o <<GitIDSectionEnd>> \o rest

\* the newContent of removeIncludeIfEntry, built by append
RemoveNewContent(content, startIndex, endIndex, newEntries) ==
    IF Len(newEntries) = 0
    THEN GoAppend([content |-> content, nc |-> Take(content, startIndex),
                   shared |-> TRUE], Drop(content, endIndex + 1)).nc
    ELSE LET b1 == GoAppend([content |-> content, nc |-> Take(content, startIndex),
                             shared |-> TRUE], <<GitIDSectionStart>>)
             b2 == GoAppend(b1, newEntries)
             b3 == GoAppend(b2, <<GitIDSectionEnd>>)
             b4 == IF endIndex < Len(content)
                   THEN GoAppend(b3, Drop(b3.content, endIndex + 1))
                   ELSE b3
         IN b4.nc

\* removeIncludeIfEntry: read, filter, write
removeIncludeIfEntry(file, name, fault) ==
    LET read == readGitConfig(file, fault = "cfgRead")
        content == read.content
        sec == findGitIDSection(content)
        loop == RemoveLoop(content, IdentityFileName(name), sec[1], sec[2],
                           sec[1] + 1, <<>>)
    IN IF read.err # NoErr
       THEN [err |-> read.err, file |-> file, written |-> FALSE]
       ELSE IF sec[1] = -1
       THEN [err |-> NoErr, file |-> file, written |-> FALSE]
       ELSE IF loop.panic
       THEN [err |-> Panic, file |-> file, written |-> FALSE]
       ELSE writeGitConfig(file, RemoveNewContent(content, sec[1], sec[2], loop.newEntries),
                           fault = "cfgWrite")

\* the disk: ~/.gitconfig and the identity files
Disk(file, cr) == [cfg |-> file, cred |-> cr]

\* mutant of AddIncludeIfEntryDone: the includeIf entries were written
\* before the identity file
AddIncludeIfEntryFirst(file, cr, cr1, res) ==
    [err |-> IF res.err = NoErr THEN NoErr
             ELSE Wrap("failed to add includeIf entry", res.err),
     file |-> res.file, cred |-> cr1, written |-> res.written,
     mid |-> Disk(res.file, cr)]

\* AddIncludeIf after createIdentityFile has saved cr1 over cr: res is
\* what addIncludeIfEntry returned; mid is the disk between the two steps
AddIncludeIfEntryDone(file, cr, cr1, res) ==
    [err |-> IF res.err = NoErr THEN NoErr
             ELSE Wrap("failed to add includeIf entry", res.err),
     file |-> res.file, cred |-> cr1, written |-> res.written,
     mid |-> Disk(file, cr1)]

\* AddIncludeIf: the identity file, then the includeIf entries
AddIncludeIf(file, cr, identity, fault) ==
    IF fault = "credWrite"
    THEN [err |-> Wrap("failed to create identity file", <<"write identity file">>),
          file |-> file, cred |-> cr, written |-> FALSE, mid |-> Disk(file, cr)]
    ELSE AddIncludeIfEntryDone(file, cr,
                               MapPut(cr, identity.Name, createIdentityFile(identity)),
                               addIncludeIfEntry(file, identity, fault))

\* RemoveIncludeIf once removeIncludeIfEntry has returned res: os.Remove
\* of the identity file, where a file that is not there is no error; mid
\* is the disk between the two steps
RemoveIncludeIfEntryDone(cr, name, fault, res) ==
    IF res.err = Panic
    THEN [err |-> Panic, file |-> res.file, cred |-> cr, written |-> res.written,
          mid |-> Disk(res.file, cr)]
    ELSE IF res.err # NoErr
    THEN [err |-> Wrap("failed to remove includeIf entry", res.err),
          file |-> res.file, cred |-> cr, written |-> res.written,
          mid |-> Disk(res.file, cr)]
    ELSE IF fault = "credRemove" /\ CredOf(cr, name).exists
    THEN [err |-> Wrap("failed to remove identity file", <<"remove identity file">>),
          file |-> res.file, cred |-> cr, written |-> res.written,
          mid |-> Disk(res.file, cr)]
    ELSE [err |-> NoErr, file |-> res.file, written |-> res.written,
          cred |-> IF name \in DOMAIN cr THEN MapPut(cr, name, NoFile) ELSE cr,
          mid |-> Disk(res.file, cr)]

\* RemoveIncludeIf: the includeIf entries, then the identity file
RemoveIncludeIf(file, cr, name, fault) ==
    RemoveIncludeIfEntryDone(cr, name, fault, removeIncludeIfEntry(file, name, fault))

\* ------------------------------------------------------ identity.Manager
\* mutant of AddIdentityPersisted: the map is updated before the error
\* is looked at
AddIdentityPersistedEarly(ids, identity, res) ==
    [err |-> IF res.err # NoErr THEN Wrap("failed to update git config", res.err)
             ELSE NoErr,
     ids |-> MapPut(ids, identity.Name, identity),
     file |-> res.file, cred |-> res.cred, editor |-> TRUE, written |-> res.written,
     ret |-> EmptyMap, mid |-> res.mid]

\* AddIdentity once configManager.AddIncludeIf has returned res
AddIdentityPersisted(ids, identity, res) ==
    [err |-> IF res.err # NoErr THEN Wrap("failed to update git config", res.err)
             ELSE NoErr,
     ids |-> IF res.err # NoErr THEN ids ELSE MapPut(ids, identity.Name, identity),
     file |-> res.file, cred |-> res.cred, editor |-> TRUE, written |-> res.written,
     ret |-> EmptyMap, mid |-> res.mid]

\* mutant of AddIdentity: no check that the name is new
AddIdentityNoCheck(ids, file, cr, name, gitName, email, paths, fault) ==
    AddIdentityPersisted(ids, Identity(name, gitName, email, paths),
        AddIncludeIf(file, cr, Identity(name, gitName, email, paths), fault))

\* AddIdentity: the map, the disk and the error after the call
AddIdentity(ids, file, cr, name, gitName, email, paths, fault) ==
    IF name \in DOMAIN ids
    THEN [err |-> <<"identity already exists">>, ids |-> ids, file |-> file,
          cred |-> cr, editor |-> FALSE, written |-> FALSE, ret |-> EmptyMap,
          mid |-> Disk(file, cr)]
    ELSE AddIdentityPersisted(ids, Identity(name, gitName, email, paths),
            AddIncludeIf(file, cr, Identity(name, gitName, email, paths), fault))

\* mutant of RemoveIdentityPersisted: the name is deleted from the map
\* before the error is looked at
RemoveIdentityPersistedEarly(ids, name, res) ==
    [err |-> IF res.err = Panic THEN Panic
             ELSE IF res.err # NoErr
             THEN Wrap("failed to remove from git config", res.err)
             ELSE NoErr,
     ids |-> MapDelete(ids, name),
     file |-> res.file, cred |-> res.cred, editor |-> TRUE, written |-> res.written,
     ret |-> EmptyMap, mid |-> res.mid]

\* RemoveIdentity once configManager.RemoveIncludeIf has returned res
RemoveIdentityPersisted(ids, name, res) ==
    [err |-> IF res.err = Panic THEN Panic
             ELSE IF res.err # NoErr
             THEN Wrap("failed to remove from git config", res.err)
             ELSE NoErr,
     ids |-> IF res.err # NoErr THEN ids ELSE MapDelete(ids, name),
     file |-> res.file, cred |-> res.cred, editor |-> TRUE, written |-> res.written,
     ret |-> EmptyMap, mid |-> res.mid]

\* RemoveIdentity: the map, the disk and the error after the call
RemoveIdentity(ids, file, cr, name, fault) ==
    IF name \notin DOMAIN ids
    THEN [err |-> <<"identity not found">>, ids |-> ids, file |-> file,
          cred |-> cr, editor |-> FALSE, written |-> FALSE, ret |-> EmptyMap,
          mid |-> Disk(file, cr)]
    ELSE RemoveIdentityPersisted(ids, name, RemoveIncludeIf(file, cr, name, fault))

\* GetIdentity: the error and the record found (as a one-entry map)
GetIdentity(ids, name) ==
    IF name \notin DOMAIN ids
    THEN [err |-> <<"identity not found">>, ret |-> EmptyMap]
    ELSE [err |-> NoErr, ret |-> MapPut(EmptyMap, name, ids[name])]

\* ListIdentities
ListIdentities(ids) == ids

\* mutant of LoadIdentities: the records are merged into the map
LoadIdentitiesMerged(ids, loaded) ==
    [x \in (DOMAIN ids) \cup (DOMAIN loaded) |->
        IF x \in DOMAIN loaded THEN loaded[x] ELSE ids[x]]

\* LoadIdentities: m.identities = identities
LoadIdentities(ids, loaded) == loaded

\* ------------------------------------------------------------ the inputs
Names == {<<"w">>, <<"w", "2">>}

GitNames == {<<"John Doe">>}

Emails == {<<"john@co.com">>}

\* the i-th path of an identity: plain, with a trailing slash, under ~/
InPath(i) ==
    CASE i = 1 -> <<Sep, "a">>
      [] i = 2 -> <<Sep, "b", Sep>>
      [] i = 3 -> <<"~", Sep, "c">>
      [] OTHER -> <<Sep, "d", ToString(i)>>

RECURSIVE SeqsUpTo(_, _)
SeqsUpTo(S, n) ==
    IF n = 0 THEN {<<>>}
    ELSE SeqsUpTo(S, n - 1) \cup
         {Append(q, x) : q \in {r \in SeqsUpTo(S, n - 1) : Len(r) = n - 1}, x \in S}

\* the --path flags of one add: the first k paths, or one path under ~/
PathLists ==
    {[i \in 1..k |-> InPath(i)] : k \in 0..MaxPaths} \cup {<< <<"~", Sep, "c">> >>}

\* lines of ~/.gitconfig that are not GitID's
PreLines(n) == [i \in 1..n |-> <<"[pre]", ToString(i)>>]

PostLines(n) == [i \in 1..n |-> <<"[post]", ToString(i)>>]

\* an identity file written by an earlier run
OldIdentityFile(name) ==
    createIdentityFile(Identity(name, <<"Old Name">>, <<"old@co.com">>, <<>>))

\* the entries an earlier run wrote for a sequence of names, each
\* identity under a directory of its own
RECURSIVE OldEntries(_)
OldEntries(names) ==
    IF names = <<>> THEN <<>>
    ELSE NewEntries(Head(names), << <<Sep, "o">> \o Head(names) >>)
         \o OldEntries(Tail(names))

\* an includeIf line that lost its path line (the file was edited by hand)
LoneHeader == HeaderLine(<<Sep, "x">>)

\* ~/.gitconfig at start: absent, or lines before, a managed section
\* (none, complete, or with its end marker missing) and lines after
InitFiles ==
    {NoFile} \cup
    {File(SplitLines(PreLines(a) \o sec \o PostLines(b))) :
        a \in 0..MaxOutside, b \in 0..MaxOutside,
        sec \in {<<>>}
                \cup {<<GitIDSectionStart>> \o OldEntries(ns) \o <<GitIDSectionEnd>> :
                        ns \in SeqsUpTo(Names, MaxInitEntries)}
                \cup {<<GitIDSectionStart>> \o OldEntries(ns) :
                        ns \in SeqsUpTo(Names, MaxInitEntries)}
                \cup {<<GitIDSectionStart, LoneHeader>> \o OldEntries(ns)
                        \o <<GitIDSectionEnd>> :
                        ns \in SeqsUpTo(Names, MaxInitEntries) \ {<<>>}}}

InitCreds ==
    {[n \in Names |-> IF n \in S THEN OldIdentityFile(n) ELSE NoFile] : S \in SUBSET Names}

\* the maps handed to LoadIdentities: records of an earlier run for any
\* of the names
LoadableMaps ==
    {[n \in S |-> Identity(n, <<"Old Name">>, <<"old@co.com">>, << <<Sep, "o">> \o n >>)] :
        S \in SUBSET Names}

\* ~/.gitconfig before GitID first ran
FreshFiles == {NoFile} \cup {File(SplitLines(PreLines(a))) : a \in 0..MaxOutside}

\* ------------------------------------------------------------- the system
NoOp ==
    [op |-> "none", name |-> <<>>, gitName |-> <<>>, email |-> <<>>, paths |-> <<>>,
     fault |-> "none", err |-> NoErr, editor |-> FALSE, written |-> FALSE,
     ret |-> EmptyMap, mid |-> Disk(NoFile, [n \in Names |-> NoFile])]

Snapshot == [cfg |-> cfg, cred |-> cred, identities |-> identities]

Init ==
    /\ cfg \in FreshFiles
    /\ cred = [n \in Names |-> NoFile]
    /\ identities = EmptyMap
    /\ lastOp = NoOp
    /\ prev = [cfg |-> cfg, cred |-> cred, identities |-> identities]
    /\ nOps = 0

\* the record of a call, before its results are filled in
Call(op, name, gitName, email, paths, fault) ==
    [NoOp EXCEPT !.op = op, !.name = name, !.gitName = gitName, !.email = email,
                 !.paths = paths, !.fault = fault]

\* a call of the Manager that returned res
ManagerStep(call, res) ==
    /\ nOps < MaxOps
    /\ nOps' = nOps + 1
    /\ prev' = Snapshot
    /\ identities' = res.ids
    /\ cfg' = res.file
    /\ cred' = res.cred
    /\ lastOp' = [call EXCEPT !.err = res.err, !.editor = res.editor,
                              !.written = res.written, !.ret = res.ret,
                              !.mid = res.mid]

\* a call of the ConfigManager that returned res
ConfigStep(call, res) ==
    /\ nOps < MaxOps
    /\ nOps' = nOps + 1
    /\ prev' = Snapshot
    /\ cfg' = res.file
    /\ cred' = res.cred
    /\ lastOp' = [call EXCEPT !.err = res.err, !.editor = TRUE,
                              !.written = res.written, !.mid = res.mid]
    /\ UNCHANGED identities

\* a call that reads the map and returned res
ReadStep(call, res) ==
    /\ nOps < MaxOps
    /\ nOps' = nOps + 1
    /\ prev' = Snapshot
    /\ lastOp' = [call EXCEPT !.err = res.err, !.ret = res.ret]
    /\ UNCHANGED <<cfg, cred, identities>>

\* a run of the program starts (cli/root.go init): NewManager, then
\* LoadExistingIdentities returned got, and LoadIdentities is called when
\* it gave no error and a map that is not empty
StartupStep(call, got) ==
    /\ nOps < MaxOps
    /\ nOps' = nOps + 1
    /\ prev' = Snapshot
    /\ identities' = IF got.err = NoErr /\ Cardinality(DOMAIN got.ids) > 0
                     THEN LoadIdentities(EmptyMap, got.ids) ELSE EmptyMap
    /\ lastOp' = [call EXCEPT !.err = got.err, !.ret = got.ids]
    /\ UNCHANGED <<cfg, cred>>

\* a call of LoadIdentities: the map is all it assigns
LoadStep(call, loaded) ==
    /\ nOps < MaxOps
    /\ nOps' = nOps + 1
    /\ prev' = Snapshot
    /\ identities' = LoadIdentities(identities, loaded)
    /\ lastOp' = [call EXCEPT !.ret = loaded]
    /\ UNCHANGED <<cfg, cred>>

CallLoadIdentities(loaded) ==
    LoadStep(Call("LoadIdentities", <<>>, <<>>, <<>>, <<>>, "none"), loaded)

Startup(readFails) ==
    StartupStep(Call("Startup", <<>>, <<>>, <<>>, <<>>,
                     IF readFails THEN "cfgRead" ELSE "none"),
                LoadExistingIdentities(cfg, cred, readFails))

CallAddIdentity(name, gitName, email, paths, fault) ==
    ManagerStep(Call("AddIdentity", name, gitName, email, paths, fault),
                AddIdentity(identities, cfg, cred, name, gitName, email, paths, fault))

CallRemoveIdentity(name, fault) ==
    ManagerStep(Call("RemoveIdentity", name, <<>>, <<>>, <<>>, fault),
                RemoveIdentity(identities, cfg, cred, name, fault))

CallGetIdentity(name) ==
    ReadStep(Call("GetIdentity", name, <<>>, <<>>, <<>>, "none"),
             GetIdentity(identities, name))

CallListIdentities ==
    ReadStep(Call("ListIdentities", <<>>, <<>>, <<>>, <<>>, "none"),
             [err |-> NoErr, ret |-> ListIdentities(identities)])

\* the ConfigManager called on its own
CallAddIncludeIf(name, gitName, email, paths, fault) ==
    ConfigStep(Call("AddIncludeIf", name, gitName, email, paths, fault),
               AddIncludeIf(cfg, cred, Identity(name, gitName, email, paths), fault))

CallRemoveIncludeIf(name, fault) ==
    ConfigStep(Call("RemoveIncludeIf", name, <<>>, <<>>, <<>>, fault),
               RemoveIncludeIf(cfg, cred, name, fault))

\* the file-system failure one call meets, if any: the write of the
\* identity file, the read or the write of ~/.gitconfig (which then stays
\* as it was), the removal of the identity file
AddFaults == {"none", "credWrite", "cfgRead", "cfgWrite"}

RemoveFaults == {"none", "cfgRead", "cfgWrite", "credRemove"}

Next ==
    \/ \E readFails \in BOOLEAN : Startup(readFails)
    \/ \E name \in Names, gitName \in GitNames, email \in Emails,
          paths \in PathLists, fault \in AddFaults :
          CallAddIdentity(name, gitName, email, paths, fault)
    \/ \E name \in Names, fault \in RemoveFaults : CallRemoveIdentity(name, fault)
    \/ \E name \in Names : CallGetIdentity(name)
    \/ CallListIdentities
    \/ \E name \in Names, gitName \in GitNames, email \in Emails,
          paths \in PathLists, fault \in AddFaults :
          CallAddIncludeIf(name, gitName, email, paths, fault)
    \/ \E name \in Names, fault \in RemoveFaults : CallRemoveIncludeIf(name, fault)
    \/ \E loaded \in LoadableMaps : CallLoadIdentities(loaded)

\* sessions of calls on a disk GitID has not touched yet
Spec == Init /\ [][Next]_vars

\* the last call of a session, made by a Manager that holds no identity,
\* on whatever ~/.gitconfig and identity files are on disk
InitDisk ==
    /\ cfg \in InitFiles
    /\ cred \in InitCreds
    /\ identities = EmptyMap
    /\ lastOp = NoOp
    /\ prev = [cfg |-> cfg, cred |-> cred, identities |-> identities]
    /\ nOps = MaxOps - 1

SpecDisk == InitDisk /\ [][Next]_vars

\* what a first AddIdentity that met no failure returns on a disk GitID
\* has not touched yet
FirstAdds ==
    {[call |-> Call("AddIdentity", name, gitName, email, paths, "none"),
      file |-> file,
      res |-> AddIdentity(EmptyMap, file, [n \in Names |-> NoFile],
                          name, gitName, email, paths, "none")] :
        file \in FreshFiles, name \in Names, gitName \in GitNames,
        email \in Emails, paths \in PathLists}

\* a session that goes on for two more calls after that first AddIdentity
InitAdded ==
    \E first \in FirstAdds :
        /\ cfg = first.res.file
        /\ cred = first.res.cred
        /\ identities = first.res.ids
        /\ lastOp = [first.call EXCEPT !.err = first.res.err,
                                       !.editor = first.res.editor,
                                       !.written = first.res.written,
                                       !.mid = first.res.mid]
        /\ prev = [cfg |-> first.file, cred |-> [n \in Names |-> NoFile],
                   identities |-> EmptyMap]
        /\ nOps = MaxOps - 2

SpecAdded == InitAdded /\ [][Next]_vars

\* the lines findGitIDSection is given: markers, plain or indented, and
\* other lines, in any order
ScanLines ==
    {GitIDSectionStart, GitIDSectionEnd, <<"    ">> \o GitIDSectionEnd, <<"[other]">>}

ScanInputs == SeqsUpTo(ScanLines, MaxScanLen)

InitScan ==
    /\ cfg \in {IF l = <<>> THEN NoFile ELSE File(l) : l \in ScanInputs}
    /\ cred = [n \in Names |-> NoFile]
    /\ identities = EmptyMap
    /\ lastOp = NoOp
    /\ prev = [cfg |-> cfg, cred |-> cred, identities |-> identities]
    /\ nOps = 0

\* findGitIDSection on the lines of ~/.gitconfig: ret is the pair
\* startIndex, endIndex it returns
CallFindGitIDSection ==
    /\ lastOp.op = "none"
    /\ nOps < MaxOps
    /\ nOps' = nOps + 1
    /\ prev' = Snapshot
    /\ lastOp' = [Call("findGitIDSection", <<>>, <<>>, <<>>, <<>>, "none")
                     EXCEPT !.ret = findGitIDSection(cfg.lines)]
    /\ UNCHANGED <<cfg, cred, identities>>

NextScan == CallFindGitIDSection

\* findGitIDSection applied to every sequence of lines
SpecScan == InitScan /\ [][NextScan]_vars

\* ------------------------------------------------- what the claims speak of
\* strings.Join(lines, "\n"): the bytes of a file
RECURSIVE Join(_)
Join(lines) ==
    IF lines = <<>> THEN <<>>
    ELSE IF Len(lines) = 1 THEN lines[1]
    ELSE lines[1] \o <<"\n">> \o Join(Tail(lines))

IsStartMarker(line) == TrimSpace(line) = GitIDSectionStart

IsEndMarker(line) == TrimSpace(line) = GitIDSectionEnd

\* the first start marker and the first end marker after it, 0 when absent
FirstStart(lines) ==
    IF \E i \in 1..Len(lines) : IsStartMarker(lines[i])
    THEN CHOOSE i \in 1..Len(lines) :
            IsStartMarker(lines[i]) /\ \A j \in 1..(i - 1) : ~IsStartMarker(lines[j])
    ELSE 0

EndAfter(lines, s) ==
    IF \E i \in (s + 1)..Len(lines) : IsEndMarker(lines[i])
    THEN CHOOSE i \in (s + 1)..Len(lines) :
            IsEndMarker(lines[i]) /\ \A j \in (s + 1)..(i - 1) : ~IsEndMarker(lines[j])
    ELSE 0

\* the file holds a managed section: a start marker and an end marker after it
HasSection(file) ==
    file.exists /\ FirstStart(file.lines) > 0
    /\ EndAfter(file.lines, FirstStart(file.lines)) > 0

\* the file holds a start marker and no end marker after it
Unterminated(file) ==
    file.exists /\ FirstStart(file.lines) > 0
    /\ EndAfter(file.lines, FirstStart(file.lines)) = 0

Before(file) == Take(file.lines, FirstStart(file.lines) - 1)

After(file) == Drop(file.lines, EndAfter(file.lines, FirstStart(file.lines)))

\* the lines between the markers
Section(file) ==
    IF HasSection(file)
    THEN SubSeq(file.lines, FirstStart(file.lines) + 1,
                EndAfter(file.lines, FirstStart(file.lines)) - 1)
    ELSE <<>>

\* a path line of the identity file of name, and of no other identity's
RefersTo(line, name) ==
    /\ Contains(line, <<PathEqTok>>)
    /\ HasSuffix(TrimSpace(line), <<IdentityFileTok>> \o name)

\* the header+path pairs of name in the managed section, in file order
PairsOf(file, name) ==
    LET sec == Section(file)
        at == {i \in 1..(Len(sec) - 1) : RefersTo(sec[i + 1], name)}
        Nth[k \in 0..Cardinality(at)] ==
            IF k = 0 THEN 0
            ELSE CHOOSE i \in at : i > Nth[k - 1] /\ \A j \in at : j > Nth[k - 1] => i <= j
    IN [k \in 1..Cardinality(at) |-> <<sec[Nth[k]], sec[Nth[k] + 1]>>]

StripSep(path) == IF HasSuffix(path, <<Sep>>) THEN Take(path, Len(path) - 1) ELSE path

Range(q) == {q[i] : i \in 1..Len(q)}

\* a path as given on the command line with ~/ replaced by the home
\* directory
HomeExpanded(path) ==
    IF HasPrefix(path, <<"~", Sep>>) THEN HomeDir \o <<Sep>> \o Drop(path, 2) ELSE path

\* ---------------------------------------------------------------- claims
\* C1: an identity with one or more paths added by AddIdentity and then
\* reloaded by LoadExistingIdentities -> LoadIdentities comes back with the
\* same name, display name and email, and with the set of its paths
\* (~/ expanded, trailing separator stripped).
C1_RoundTrip ==
    [][(/\ lastOp.op = "AddIdentity" /\ lastOp.err = NoErr
        /\ Len(lastOp.paths) >= 1
        /\ lastOp'.op = "Startup" /\ lastOp'.fault = "none")
       => /\ lastOp.name \in DOMAIN identities'
          /\ identities'[lastOp.name].Name = lastOp.name
          /\ identities'[lastOp.name].GitName = lastOp.gitName
          /\ identities'[lastOp.name].Email = lastOp.email
          /\ Range(identities'[lastOp.name].Paths)
                = {StripSep(HomeExpanded(p)) : p \in Range(lastOp.paths)}]_vars

\* C2: RemoveIncludeIf(A) leaves every header+path pair of another
\* identity B of the managed section in place and in order, and B's
\* identity file as it was.
C2_RemoveLeavesOthers ==
    (/\ lastOp.op = "RemoveIncludeIf" /\ lastOp.err = NoErr
     /\ HasSection(prev.cfg)
     /\ PairsOf(prev.cfg, lastOp.name) # <<>>)
    => \A b \in Names \ {lastOp.name} :
          /\ PairsOf(cfg, b) = PairsOf(prev.cfg, b)
          /\ cred[b] = prev.cred[b]

\* C3: adding identity B (AddIncludeIf, also through AddIdentity) leaves
\* every header+path pair of any other identity A of the managed section
\* unchanged and in the same order, and leaves A's identity file as it was.
C3_AddLeavesOthers ==
    lastOp.op \in {"AddIncludeIf", "AddIdentity"}
    => \A a \in Names \ {lastOp.name} :
          /\ PairsOf(cfg, a) = PairsOf(prev.cfg, a)
          /\ cred[a] = prev.cred[a]

\* C3 witness: B was added with a path to a section that held a pair of A
\* and had lines after it, and A had an identity file
C3_Witness ==
    /\ lastOp.op = "AddIncludeIf" /\ lastOp.err = NoErr /\ lastOp.written
    /\ Len(lastOp.paths) >= 1
    /\ HasSection(prev.cfg) /\ After(prev.cfg) # <<>>
    /\ \E a \in Names \ {lastOp.name} :
          PairsOf(prev.cfg, a) # <<>> /\ prev.cred[a].exists

\* C4: addIncludeIfEntry on a file with a managed section writes a file
\* with the same lines before the start marker and the same lines after
\* the end marker.
C4_AddKeepsOutside ==
    (/\ lastOp.op = "AddIncludeIf" /\ lastOp.written
     /\ HasSection(prev.cfg))
    => /\ HasSection(cfg)
       /\ Before(cfg) = Before(prev.cfg)
       /\ After(cfg) = After(prev.cfg)

\* C5: removeIncludeIfEntry on a file with a managed section writes a file
\* with the same lines before the start marker and after the end marker:
\* around the section when entries remain, and alone when the section and
\* its markers are gone.
C5_RemoveKeepsOutside ==
    (/\ lastOp.op = "RemoveIncludeIf" /\ lastOp.written
     /\ HasSection(prev.cfg))
    => \/ /\ HasSection(cfg)
          /\ Before(cfg) = Before(prev.cfg)
          /\ After(cfg) = After(prev.cfg)
       \/ /\ ~HasSection(cfg)
          /\ Join(cfg.lines) = Join(Before(prev.cfg) \o After(prev.cfg))

\* C5 witness: entries of another identity remained, with lines on both
\* sides of the section
C5_Witness ==
    /\ lastOp.op = "RemoveIncludeIf" /\ lastOp.written /\ lastOp.err = NoErr
    /\ HasSection(prev.cfg) /\ HasSection(cfg)
    /\ Len(Section(cfg)) < Len(Section(prev.cfg))
    /\ Before(prev.cfg) # <<>> /\ After(prev.cfg) # <<>>

\* the section and its markers went, with lines on both sides of it
C5_WitnessCollapse ==
    /\ lastOp.op = "RemoveIncludeIf" /\ lastOp.written /\ lastOp.err = NoErr
    /\ HasSection(prev.cfg) /\ ~HasSection(cfg)
    /\ Section(prev.cfg) # <<>>
    /\ Before(prev.cfg) # <<>> /\ After(prev.cfg) # <<>>

\* a rejected or failed call left the map and the disk as they were
Untouched ==
    /\ identities = prev.identities
    /\ cfg = prev.cfg
    /\ cred = prev.cred

\* C6: AddIdentity of a name in the map fails with "already exists",
\* RemoveIdentity and GetIdentity of a name not in the map fail with "not
\* found"; the ConfigManager is not called, and the map, ~/.gitconfig and
\* the identity files stay as they were.
C6_RejectedCallsChangeNothing ==
    /\ (lastOp.op = "AddIdentity" /\ lastOp.name \in DOMAIN prev.identities)
       => /\ lastOp.err = <<"identity already exists">>
          /\ ~lastOp.editor /\ ~lastOp.written /\ Untouched
    /\ (lastOp.op \in {"RemoveIdentity", "GetIdentity"}
        /\ lastOp.name \notin DOMAIN prev.identities)
       => /\ lastOp.err = <<"identity not found">>
          /\ ~lastOp.editor /\ ~lastOp.written /\ Untouched

\* C6 witness: AddIdentity was called with a name the map held
C6_Witness ==
    /\ lastOp.op = "AddIdentity" /\ lastOp.name \in DOMAIN prev.identities
    /\ prev.cfg.exists /\ HasSection(prev.cfg)

\* the error the ConfigManager returned to the last call of the Manager
EditorErr ==
    IF lastOp.op = "AddIdentity"
    THEN AddIncludeIf(prev.cfg, prev.cred,
                      Identity(lastOp.name, lastOp.gitName, lastOp.email, lastOp.paths),
                      lastOp.fault).err
    ELSE RemoveIncludeIf(prev.cfg, prev.cred, lastOp.name, lastOp.fault).err

\* C7: when the ConfigManager call of AddIdentity or RemoveIdentity returns
\* an error, the map is as before the call and the error returned wraps
\* that error; the map changes only in a call whose ConfigManager call
\* succeeded.
C7_RegistryAllOrNothing ==
    lastOp.op \in {"AddIdentity", "RemoveIdentity"}
    => /\ (lastOp.editor /\ EditorErr # NoErr)
          => /\ identities = prev.identities
             /\ lastOp.err = Wrap(IF lastOp.op = "AddIdentity"
                                  THEN "failed to update git config"
                                  ELSE "failed to remove from git config", EditorErr)
       /\ identities # prev.identities
          => (lastOp.editor /\ EditorErr = NoErr /\ lastOp.err = NoErr)

\* C7 witness: the ConfigManager call of RemoveIdentity failed
C7_Witness ==
    /\ lastOp.op = "RemoveIdentity" /\ lastOp.editor /\ lastOp.err # NoErr
    /\ lastOp.name \in DOMAIN prev.identities

\* C8: when AddIncludeIf or RemoveIncludeIf returns an error, whichever
\* step failed, ~/.gitconfig was not written in that call and is as before
\* (stated for files whose managed section is complete or absent; the
\* section with no end marker is C10's).
C8_EditorNeverPartial ==
    (/\ lastOp.op \in {"AddIncludeIf", "RemoveIncludeIf"} /\ lastOp.err # NoErr
     /\ ~Unterminated(prev.cfg))
    => (~lastOp.written /\ cfg = prev.cfg)

\* C9: LoadExistingIdentities on a file with a start marker and no end
\* marker after it returns an error; on an absent file it returns an empty
\* map and no error.
C9_LoadUnterminatedFails ==
    lastOp.op = "Startup"
    => /\ (Unterminated(prev.cfg) /\ lastOp.fault = "none") => lastOp.err # NoErr
       /\ ~prev.cfg.exists => (lastOp.err = NoErr /\ lastOp.ret = EmptyMap)

\* C10: AddIncludeIf and RemoveIncludeIf on a file with a start marker and
\* no end marker fail and do not write ~/.gitconfig: its content is as
\* before the call.
C10_EditUnterminatedFails ==
    (lastOp.op \in {"AddIncludeIf", "RemoveIncludeIf"} /\ Unterminated(prev.cfg))
    => (lastOp.err # NoErr /\ ~lastOp.written /\ cfg = prev.cfg)

\* the lines between the markers are header+path pairs of name and
\* nothing else
OnlyPairsOf(file, name) ==
    LET sec == Section(file)
    IN /\ HasSection(file) /\ sec # <<>> /\ Len(sec) % 2 = 0
       /\ \A i \in 1..Len(sec) :
             IF i % 2 = 1 THEN IsHeaderLine(TrimSpace(sec[i]))
             ELSE RefersTo(sec[i], name)

NoMarkers(file) ==
    \A i \in 1..Len(file.lines) :
        ~IsStartMarker(file.lines[i]) /\ ~IsEndMarker(file.lines[i])

\* C11: when the managed section holds entries of exactly one identity, a
\* RemoveIncludeIf of that identity that succeeds leaves a ~/.gitconfig
\* with neither the start marker nor the end marker, and no identity file
\* for that identity.
C11_SectionCollapses ==
    (/\ lastOp.op = "RemoveIncludeIf" /\ lastOp.err = NoErr
     /\ OnlyPairsOf(prev.cfg, lastOp.name))
    => /\ NoMarkers(cfg)
       /\ ~cred[lastOp.name].exists

\* C11 witness: the only identity of the section, which had two entries
\* and an identity file, was removed from a file with lines on both sides
C11_Witness ==
    /\ lastOp.op = "RemoveIncludeIf" /\ lastOp.err = NoErr /\ lastOp.written
    /\ OnlyPairsOf(prev.cfg, lastOp.name) /\ Len(Section(prev.cfg)) = 4
    /\ prev.cred[lastOp.name].exists
    /\ Before(prev.cfg) # <<>> /\ After(prev.cfg) # <<>>

RegistryOps == {"AddIdentity", "RemoveIdentity", "GetIdentity", "ListIdentities"}

\* C12: in a step of AddIdentity, RemoveIdentity, GetIdentity or
\* ListIdentities a name enters the map only if the step is an AddIdentity
\* of that name that succeeded, leaves it only if the step is a
\* RemoveIdentity of that name that succeeded, and the record of a name
\* that stays in the map stays the same.
C12_RegistryStateMachine ==
    [][lastOp'.op \in RegistryOps
       => \A n \in Names :
            /\ (n \notin DOMAIN identities /\ n \in DOMAIN identities')
               => (lastOp'.op = "AddIdentity" /\ lastOp'.name = n
                   /\ lastOp'.err = NoErr)
            /\ (n \in DOMAIN identities /\ n \notin DOMAIN identities')
               => (lastOp'.op = "RemoveIdentity" /\ lastOp'.name = n
                   /\ lastOp'.err = NoErr)
            /\ (n \in DOMAIN identities /\ n \in DOMAIN identities')
               => identities'[n] = identities[n]]_vars

\* C12 witness: a RemoveIdentity failed in the ConfigManager on a map that
\* held two names, and both are still there
C12_Witness ==
    /\ lastOp.op = "RemoveIdentity" /\ lastOp.editor /\ lastOp.err # NoErr
    /\ DOMAIN prev.identities = Names
    /\ identities = prev.identities

\* the managed section holds one header+path pair of name for each of the
\* paths, and no other pair of name
OnePairPerPath(file, name, paths) ==
    LET pairs == PairsOf(file, name)
    IN /\ Len(pairs) = Len(paths)
       /\ \A k \in 1..Len(paths) :
             Cardinality({j \in 1..Len(pairs) :
                            pairs[j] = <<HeaderLine(paths[k]), PathLine(name)>>}) = 1

\* every identity of the map that has a path has its pairs in
\* ~/.gitconfig and its identity file
Persisted(ids, file, cr) ==
    \A n \in DOMAIN ids :
        Len(ids[n].Paths) >= 1
        => (OnePairPerPath(file, n, ids[n].Paths) /\ cr[n].exists)

\* the disk holds what the map holds and nothing else of GitID's: as it
\* is after calls of AddIdentity and RemoveIdentity that all succeeded
InSync(ids, file, cr) ==
    \A n \in Names :
        IF n \in DOMAIN ids
        THEN OnePairPerPath(file, n, ids[n].Paths) /\ cr[n].exists
        ELSE PairsOf(file, n) = <<>> /\ ~cr[n].exists

\* C13: started from an empty map and a ~/.gitconfig without a managed
\* section, calls of AddIdentity and RemoveIdentity that succeed keep every
\* identity of the map that has a path with exactly one header+path pair
\* per path in the managed section and with its identity file, also for
\* names that are prefixes of each other.  Stated as the step of the
\* induction: a call that succeeds on a map and a disk that agree leaves
\* every identity of the map persisted.
C13_RegistryDiskConsistent ==
    (/\ lastOp.op \in {"AddIdentity", "RemoveIdentity"} /\ lastOp.err = NoErr
     /\ InSync(prev.identities, prev.cfg, prev.cred))
    => Persisted(identities, cfg, cred)

StartMarkers(file) == {i \in 1..Len(file.lines) : IsStartMarker(file.lines[i])}

EndMarkers(file) == {i \in 1..Len(file.lines) : IsEndMarker(file.lines[i])}

\* the lines are header line / path line pairs and nothing else
OnlyPairs(lines) ==
    /\ Len(lines) % 2 = 0
    /\ \A i \in 1..Len(lines) :
          IF i % 2 = 1 THEN IsHeaderLine(TrimSpace(lines[i]))
          ELSE IsPathLine(TrimSpace(lines[i]))

\* no marker at all, or one start marker, one end marker after it and
\* only header+path pairs between them
Structured(file) ==
    \/ StartMarkers(file) = {} /\ EndMarkers(file) = {}
    \/ /\ Cardinality(StartMarkers(file)) = 1
       /\ Cardinality(EndMarkers(file)) = 1
       /\ \A i \in StartMarkers(file), j \in EndMarkers(file) :
             i < j /\ OnlyPairs(SubSeq(file.lines, i + 1, j - 1))

\* C14: AddIncludeIf and RemoveIncludeIf, called on a ~/.gitconfig with no
\* managed section or one well-formed managed section, leave a file with
\* at most one start marker and at most one end marker, the start marker
\* before the end marker, and only header line / path line pairs between
\* them.
C14_SectionStructure ==
    (lastOp.op \in {"AddIncludeIf", "RemoveIncludeIf"} /\ Structured(prev.cfg))
    => Structured(cfg)

\* what RemoveIncludeIf of the same name returns when it is called again
\* right after the last call, and meets no failure of the file system
RemovedAgain == RemoveIncludeIf(cfg, cred, lastOp.name, "none")

\* C15: RemoveIncludeIf(name) succeeds when the identity file of name does
\* not exist, whether or not there is a managed section or entries of
\* name in it; and RemoveIncludeIf(name) called again right after one that
\* succeeded succeeds and leaves ~/.gitconfig as it is.
C15_RemoveIdempotent ==
    lastOp.op = "RemoveIncludeIf"
    => /\ (lastOp.fault = "none" /\ ~prev.cred[lastOp.name].exists)
          => lastOp.err = NoErr
       /\ lastOp.err = NoErr
          => (RemovedAgain.err = NoErr /\ RemovedAgain.file = cfg)

\* C16: LoadIdentities(records) makes the map equal to records whatever it
\* held before, so that ListIdentities returns records and nothing of an
\* earlier LoadIdentities stays; it calls no method of the ConfigManager
\* and writes no file.
C16_LoadReplaces ==
    lastOp.op = "LoadIdentities"
    => /\ identities = lastOp.ret
       /\ ListIdentities(identities) = lastOp.ret
       /\ ~lastOp.editor /\ ~lastOp.written
       /\ cfg = prev.cfg /\ cred = prev.cred

\* C16 witness: a second LoadIdentities on a map that held, from the
\* first one, a record that is not among the records now given
C16_Witness ==
    /\ lastOp.op = "LoadIdentities"
    /\ \E n \in (DOMAIN prev.identities) \ (DOMAIN lastOp.ret) :
          prev.identities[n] \in {m[n] : m \in {l \in LoadableMaps : n \in DOMAIN l}}
    /\ lastOp.ret # EmptyMap

\* the directory prefix of a header line: what stands between
\* [includeIf "gitdir: and "]
PrefixOf(line) == SubSeq(line, 3, Len(line) - 1)

\* lines are one header+path pair for each of the paths, in their order:
\* the prefix is the path with one separator at its end, the path line
\* names the identity file of name
PairsFor(lines, name, paths) ==
    /\ Len(lines) = 2 * Len(paths)
    /\ \A k \in 1..Len(paths) :
          /\ IsHeaderLine(lines[2 * k - 1])
          /\ lines[2 * k - 1][Len(lines[2 * k - 1])] = CloseTok
          /\ HasSuffix(PrefixOf(lines[2 * k - 1]), <<Sep>>)
          /\ ~HasSuffix(PrefixOf(lines[2 * k - 1]), <<Sep, Sep>>)
          /\ StripSep(PrefixOf(lines[2 * k - 1])) = StripSep(HomeExpanded(paths[k]))
          /\ TrimSpace(lines[2 * k])
                = <<PathEqTok>> \o HomeDir \o <<Sep, IdentityFileTok>> \o name

\* C17: after an AddIncludeIf of an identity with paths p1..pk that
\* succeeded, the managed section holds the lines it held before, in
\* order, followed by k header+path pairs in the order p1..pk; each prefix
\* ends with exactly one separator and each path line names the identity
\* file of the identity; when the file had no managed section, the file is
\* its lines of before followed by (an empty line and) the start marker,
\* the k pairs and the end marker.
C17_AddOutput ==
    (lastOp.op = "AddIncludeIf" /\ lastOp.err = NoErr)
    => /\ HasSection(prev.cfg)
          => /\ HasSection(cfg)
             /\ Len(Section(cfg)) = Len(Section(prev.cfg)) + 2 * Len(lastOp.paths)
             /\ Take(Section(cfg), Len(Section(prev.cfg))) = Section(prev.cfg)
             /\ PairsFor(Drop(Section(cfg), Len(Section(prev.cfg))),
                         lastOp.name, lastOp.paths)
       /\ StartMarkers(prev.cfg) = {}
          => /\ Len(cfg.lines) = Len(prev.cfg.lines) + 3 + 2 * Len(lastOp.paths)
             /\ Take(cfg.lines, Len(prev.cfg.lines)) = prev.cfg.lines
             /\ cfg.lines[Len(prev.cfg.lines) + 1] = <<>>
             /\ cfg.lines[Len(prev.cfg.lines) + 2] = GitIDSectionStart
             /\ cfg.lines[Len(cfg.lines)] = GitIDSectionEnd
             /\ PairsFor(SubSeq(cfg.lines, Len(prev.cfg.lines) + 3, Len(cfg.lines) - 1),
                         lastOp.name, lastOp.paths)

\* C17 witness: a path with a separator at its end was added, as the
\* second of two, to a section that held entries
C17_Witness ==
    /\ lastOp.op = "AddIncludeIf" /\ lastOp.err = NoErr
    /\ HasSection(prev.cfg) /\ Section(prev.cfg) # <<>>
    /\ Len(lastOp.paths) = 2 /\ HasSuffix(lastOp.paths[2], <<Sep>>)

\* a path under ~/ was added to a file that had lines and no section
C17_WitnessCreated ==
    /\ lastOp.op = "AddIncludeIf" /\ lastOp.err = NoErr
    /\ StartMarkers(prev.cfg) = {} /\ Len(prev.cfg.lines) >= 2
    /\ Len(lastOp.paths) = 1 /\ HasPrefix(lastOp.paths[1], <<"~", Sep>>)

\* the directory prefixes, trailing separator stripped, of the header
\* lines among the lines, in order
RECURSIVE PrefixesIn(_)
PrefixesIn(lines) ==
    IF lines = <<>> THEN <<>>
    ELSE (IF IsHeaderLine(TrimSpace(Head(lines)))
          THEN <<StripSep(PrefixOf(TrimSpace(Head(lines))))>> ELSE <<>>)
         \o PrefixesIn(Tail(lines))

\* the identities with a path line in the managed section
Listed(file) == {n \in Names : PairsOf(file, n) # <<>>}

Readable(cr, name) == loadIdentityFile(cr, name).ok

\* C18: LoadExistingIdentities, meeting a path line whose identity file
\* cannot be read, returns no record for that name and no error, returns
\* the record of every other identity of the section whose identity file
\* can be read, and gives the paths pending at that line to no identity.
C18_LossyLoad ==
    (lastOp.op = "Startup" /\ lastOp.fault = "none" /\ HasSection(prev.cfg))
    => /\ lastOp.err = NoErr
       /\ \A n \in Listed(prev.cfg) :
             /\ n \in DOMAIN lastOp.ret <=> Readable(prev.cred, n)
             /\ n \in DOMAIN lastOp.ret
                => /\ lastOp.ret[n].Name = n
                   /\ lastOp.ret[n].GitName = IniKey(prev.cred[n].lines, "name")
                   /\ lastOp.ret[n].Email = IniKey(prev.cred[n].lines, "email")
                   /\ \A m \in Listed(prev.cfg) \ {n} :
                         ~Readable(prev.cred, m)
                         => Range(lastOp.ret[n].Paths)
                              \cap {StripSep(PrefixOf(PairsOf(prev.cfg, m)[k][1])) :
                                        k \in 1..Len(PairsOf(prev.cfg, m))} = {}

\* C18 witness: the first identity of the section has no identity file,
\* the second has one and was returned
C18_Witness ==
    /\ lastOp.op = "Startup" /\ lastOp.fault = "none" /\ HasSection(prev.cfg)
    /\ Len(Section(prev.cfg)) = 4
    /\ \E m \in Names, n \in Names :
          /\ m # n
          /\ RefersTo(Section(prev.cfg)[2], m) /\ RefersTo(Section(prev.cfg)[4], n)
          /\ ~Readable(prev.cred, m) /\ Readable(prev.cred, n)
          /\ DOMAIN lastOp.ret = {n}

\* the line numbers, in the section, of the path lines of name and of
\* the path lines before line j
PathLinesOf(sec, name) == {k \in 1..Len(sec) : RefersTo(sec[k], name)}

PathLinesBefore(sec, j) == {k \in 1..(j - 1) : IsPathLine(TrimSpace(sec[k]))}

LastOf(S) == IF S = {} THEN 0 ELSE CHOOSE k \in S : \A l \in S : l <= k

\* C19: in LoadExistingIdentities a header line followed by another
\* header line before any path line gives its directory prefix (trailing
\* separator stripped) to the record made at the next path line: a record
\* has the prefixes of all header lines since the path line before, in
\* the order of the file.
C19_HeaderFolding ==
    (lastOp.op = "Startup" /\ lastOp.fault = "none" /\ HasSection(prev.cfg))
    => \A n \in DOMAIN lastOp.ret :
          LET sec == Section(prev.cfg)
              j == LastOf(PathLinesOf(sec, n))
              i == LastOf(PathLinesBefore(sec, j))
          IN lastOp.ret[n].Paths = PrefixesIn(SubSeq(sec, i + 1, j - 1))

\* C19 witness: the section starts with two header lines, and the record
\* of the path line after them has both prefixes
C19_Witness ==
    /\ lastOp.op = "Startup" /\ lastOp.fault = "none" /\ HasSection(prev.cfg)
    /\ Len(Section(prev.cfg)) >= 3
    /\ IsHeaderLine(Section(prev.cfg)[1]) /\ IsHeaderLine(Section(prev.cfg)[2])
    /\ \E n \in DOMAIN lastOp.ret :
          /\ RefersTo(Section(prev.cfg)[3], n)
          /\ Len(lastOp.ret[n].Paths) = 2
          /\ lastOp.ret[n].Paths[1] = StripSep(PrefixOf(Section(prev.cfg)[1]))

\* C20: on a ~/.gitconfig without a managed section (absent, empty or
\* with other lines), an AddIncludeIf of X that succeeds followed by a
\* RemoveIncludeIf of X that succeeds leaves a file with the content of
\* the file before the AddIncludeIf.
C20_AddRemoveRestores ==
    [][(/\ lastOp.op = "AddIncludeIf" /\ lastOp.err = NoErr
        /\ StartMarkers(prev.cfg) = {} /\ EndMarkers(prev.cfg) = {}
        /\ lastOp'.op = "RemoveIncludeIf" /\ lastOp'.name = lastOp.name
        /\ lastOp'.err = NoErr)
       => Join(cfg'.lines) = Join(prev.cfg.lines)]_vars

\* every path line of the managed section names an identity file that is
\* on the disk
NoDangling(disk) ==
    \A n \in Names :
        (\E i \in 1..Len(Section(disk.cfg)) : RefersTo(Section(disk.cfg)[i], n))
        => disk.cred[n].exists

\* C21: started without a managed section, in every state between the
\* file writes and removals of calls of AddIdentity and RemoveIdentity,
\* failing at any step or not, every path line of the managed section
\* names an identity file that exists: AddIdentity writes the identity
\* file before ~/.gitconfig, RemoveIdentity writes ~/.gitconfig before it
\* removes the identity file.
C21_NoDanglingInclude ==
    /\ NoDangling(Disk(cfg, cred))
    /\ lastOp.op \in {"AddIdentity", "RemoveIdentity", "AddIncludeIf", "RemoveIncludeIf"}
       => NoDangling(lastOp.mid)
    /\ (lastOp.op = "AddIdentity" /\ lastOp.editor)
       => /\ lastOp.mid.cfg = prev.cfg
          /\ lastOp.mid.cred = cred
    /\ (lastOp.op = "RemoveIdentity" /\ lastOp.editor)
       => /\ lastOp.mid.cfg = cfg
          /\ lastOp.mid.cred = prev.cred

\* C21 witness: a RemoveIdentity that succeeded on a map of two names:
\* between its two steps ~/.gitconfig is rewritten and the identity file
\* is still there
C21_Witness ==
    /\ lastOp.op = "RemoveIdentity" /\ lastOp.err = NoErr
    /\ DOMAIN prev.identities = Names
    /\ lastOp.mid.cfg # prev.cfg
    /\ lastOp.mid.cred[lastOp.name].exists /\ ~cred[lastOp.name].exists

\* an AddIdentity whose write of ~/.gitconfig failed after the identity
\* file was written
C21_WitnessFailedAdd ==
    /\ lastOp.op = "AddIdentity" /\ lastOp.fault = "cfgWrite" /\ lastOp.err # NoErr
    /\ lastOp.mid.cred[lastOp.name].exists /\ ~prev.cred[lastOp.name].exists

\* C22: when AddIdentity(name, ...) fails because the ConfigManager could
\* not read or write ~/.gitconfig, and name had no identity file before
\* the call, name has no identity file after it: the identity files on
\* the disk are those of before the call.
C22_FailedAddLeavesNoFile ==
    (/\ lastOp.op = "AddIdentity" /\ lastOp.editor /\ lastOp.err # NoErr
     /\ lastOp.fault \in {"cfgRead", "cfgWrite"}
     /\ ~prev.cred[lastOp.name].exists)
    => /\ ~cred[lastOp.name].exists
       /\ cred = prev.cred

\* the start marker with the end marker right after it
EmptySection(file) ==
    \E i \in 1..(Len(file.lines) - 1) :
        IsStartMarker(file.lines[i]) /\ IsEndMarker(file.lines[i + 1])

\* no empty managed section, and no identity file of a name without a
\* header+path pair in the managed section
Tidy(file, cr) ==
    /\ ~EmptySection(file)
    /\ \A n \in Names : cr[n].exists => PairsOf(file, n) # <<>>

\* C23: after calls of AddIdentity and RemoveIdentity that all succeeded,
\* an AddIdentity with no path among them, ~/.gitconfig never holds the
\* start marker with the end marker right after it, and a name has an
\* identity file only if the managed section holds a header+path pair of
\* that name.  Stated as the step of the induction: a call that succeeds
\* on a disk that is so, and that holds what the map holds, leaves a disk
\* that is so.
C23_NoEmptySection ==
    (/\ lastOp.op \in {"AddIdentity", "RemoveIdentity"} /\ lastOp.err = NoErr
     /\ lastOp.fault = "none"
     /\ InSync(prev.identities, prev.cfg, prev.cred)
     /\ Tidy(prev.cfg, prev.cred))
    => Tidy(cfg, cred)

\* C24: for every sequence of lines findGitIDSection returns startIndex =
\* -1 only if no line is the start marker, and whenever a start marker has
\* an end marker after it, it returns startIndex < endIndex with
\* lines[startIndex] the start marker and lines[endIndex] the first end
\* marker after it, also when an end marker stands before the first start
\* marker.
C24_ScanFindsSection ==
    lastOp.op = "findGitIDSection"
    => LET lines == prev.cfg.lines
           startIndex == lastOp.ret[1]
           endIndex == lastOp.ret[2]
       IN /\ startIndex = -1 => StartMarkers(prev.cfg) = {}
          /\ (\E i \in StartMarkers(prev.cfg), j \in EndMarkers(prev.cfg) : i < j)
             => /\ 0 <= startIndex /\ startIndex < endIndex
                /\ IsStartMarker(At(lines, startIndex))
                /\ IsEndMarker(At(lines, endIndex))
                /\ \A k \in (startIndex + 1)..(endIndex - 1) :
                      ~IsEndMarker(At(lines, k))

====
